---- MODULE Spec2Model ----
(***************************************************************************)
(* A model of hoconenv (src/hoconenv.go): a Config holding a prefix, the   *)
(* ledger of loaded files and the table of variables; the line scanner of  *)
(* loadFile, parseLine and the four include handlers; and applyVariables,  *)
(* which publishes the table to the process environment.                   *)
(*                                                                         *)
(* A Go string is a sequence of symbols.  A symbol is one character or one *)
(* word that no operation of the program looks inside ("include", "app",   *)
(* ".conf"); ToUpper is given symbol by symbol.                            *)
(***************************************************************************)
EXTENDS Integers, Sequences, FiniteSets, TLC

VARIABLES
    prefix,       \* Config.prefix
    loadedFiles,  \* Config.loadedFiles: the set of keys mapped to true
    variables,    \* Config.variables: key string -> value string
    env,          \* the process environment: name string -> value string
    stack,        \* the Go call stack of the running Load, innermost frame first
    ret,          \* the error value the last returned call handed to its caller
    opts,         \* the Options of the running Load
    result,       \* what the last top-level Load returned
    ops,          \* number of API calls made so far
    hist,         \* observations of the running/last Load (history only)
    mutex,        \* Config.mutex: the goroutine that holds it for writing, and the readers
    goroutines    \* the goroutines that call the API concurrently, each with its position

vars == <<prefix, loadedFiles, variables, env, stack, ret, opts, result, ops, hist,
          mutex, goroutines>>

-----------------------------------------------------------------------------
(* Bounds of the model *)

\* API calls (SetPrefix, Load, ClearVariables) in one session
MaxOps == 2

-----------------------------------------------------------------------------
(* package strings, on sequences of symbols *)

SP == " "
QQ == "\""
SQ == "'"

RECURSIVE DropLeft(_, _)
DropLeft(s, cut) ==
    IF s # <<>> /\ Head(s) \in cut THEN DropLeft(Tail(s), cut) ELSE s

RECURSIVE DropRight(_, _)
DropRight(s, cut) ==
    IF s # <<>> /\ s[Len(s)] \in cut THEN DropRight(SubSeq(s, 1, Len(s) - 1), cut) ELSE s

\* strings.Trim(s, cutset)
Trim(s, cut) == DropRight(DropLeft(s, cut), cut)

\* strings.TrimSpace(s)
TrimSpace(s) == Trim(s, {SP})

\* strings.HasPrefix(s, p)
HasPrefix(s, p) == Len(s) >= Len(p) /\ SubSeq(s, 1, Len(p)) = p

\* strings.HasSuffix(s, p)
HasSuffix(s, p) == Len(s) >= Len(p) /\ SubSeq(s, Len(s) - Len(p) + 1, Len(s)) = p

\* strings.TrimPrefix(s, p)
TrimPrefix(s, p) == IF HasPrefix(s, p) THEN SubSeq(s, Len(p) + 1, Len(s)) ELSE s

\* strings.TrimSuffix(s, p)
TrimSuffix(s, p) == IF HasSuffix(s, p) THEN SubSeq(s, 1, Len(s) - Len(p)) ELSE s

\* strings.Index(s, c) for a one-symbol c, 1-based; 0 when absent (Go: -1)
Index(s, c) ==
    IF \E i \in 1..Len(s) : s[i] = c
    THEN CHOOSE i \in 1..Len(s) : s[i] = c /\ \A j \in 1..(i - 1) : s[j] # c
    ELSE 0

\* strings.Contains(s, c) for a one-symbol c
Contains(s, c) == Index(s, c) # 0

\* strings.SplitN(s, c, 2) for a one-symbol c
SplitN2(s, c) ==
    LET i == Index(s, c)
    IN  IF i = 0 THEN <<s>> ELSE <<SubSeq(s, 1, i - 1), SubSeq(s, i + 1, Len(s))>>

\* unicode.ToUpper on one symbol
UpperSym(c) ==
    CASE c = "a" -> "A"
      [] c = "b" -> "B"
      [] c = "x" -> "X"
      [] c = "y" -> "Y"
      [] c = "z" -> "Z"
      [] c = "k" -> "K"
      [] c = "w" -> "W"
      [] c = "app" -> "APP"
      [] c = "name" -> "NAME"
      [] c = "database" -> "DATABASE"
      [] c = "host" -> "HOST"
      [] c = "test" -> "TEST"
      [] c = "ok" -> "OK"
      [] c = "n" -> "N"
      [] c = "c" -> "C"
      [] c = "pre" -> "PRE"
      [] c = "prod" -> "PROD"
      [] OTHER -> c

\* strings.ToUpper(s)
ToUpper(s) == [i \in 1..Len(s) |-> UpperSym(s[i])]

\* strings.ReplaceAll(s, a, b) for one-symbol a and b
ReplaceAll(s, a, b) == [i \in 1..Len(s) |-> IF s[i] = a THEN b ELSE s[i]]

\* strings.Join(elems, sep) for a one-symbol sep
RECURSIVE Join(_, _)
Join(elems, sep) ==
    IF elems = <<>> THEN <<>>
    ELSE IF Len(elems) = 1 THEN elems[1]
    ELSE elems[1] \o <<sep>> \o Join(Tail(elems), sep)

-----------------------------------------------------------------------------
(* package path/filepath, on sequences of symbols *)

SEP == "/"

\* the index of the last separator of p, 0 when it has none
LastSep(p) ==
    IF \E i \in 1..Len(p) : p[i] = SEP
    THEN CHOOSE i \in 1..Len(p) : p[i] = SEP /\ \A j \in (i + 1)..Len(p) : p[j] # SEP
    ELSE 0

\* filepath.IsAbs(p)
IsAbs(p) == p # <<>> /\ p[1] = SEP

\* filepath.Dir(p): all but the last element; "." when p has no directory
Dir(p) ==
    LET i == LastSep(p)
    IN  IF i = 0 THEN <<".">>
        ELSE IF i = 1 THEN <<SEP>>
        ELSE SubSeq(p, 1, i - 1)

\* filepath.Base(p)
Base(p) == SubSeq(p, LastSep(p) + 1, Len(p))

\* filepath.Clean(p), for the paths of this model: a leading "./" is dropped
RECURSIVE Clean(_)
Clean(p) ==
    IF HasPrefix(p, <<".", SEP>>) THEN Clean(SubSeq(p, 3, Len(p)))
    ELSE IF p = <<>> THEN <<".">>
    ELSE p

\* filepath.Join(dir, file): empty elements are ignored, the result is cleaned
PathJoin(dir, file) ==
    IF dir = <<>> THEN Clean(file)
    ELSE IF file = <<>> THEN Clean(dir)
    ELSE IF dir = <<SEP>> THEN Clean(dir \o file)
    ELSE Clean(dir \o <<SEP>> \o file)

\* filepath.Match(pattern, name): "*" matches any run of non-separator symbols
RECURSIVE Match(_, _)
Match(pat, s) ==
    IF pat = <<>> THEN s = <<>>
    ELSE IF Head(pat) = "*"
         THEN \/ Match(Tail(pat), s)
              \/ s # <<>> /\ Head(s) # SEP /\ Match(pat, Tail(s))
         ELSE s # <<>> /\ Head(s) = Head(pat) /\ Match(Tail(pat), Tail(s))

\* filepath.ErrBadPattern: an opening bracket that is never closed
BadPattern(pat) == Contains(pat, "[") /\ ~Contains(pat, "]")

-----------------------------------------------------------------------------
(* The world outside the program: files, directories and HTTP resources.   *)
(* A file is the sequence of its lines.                                    *)

CONF == ".conf"

FileText ==
    ( <<"application", CONF>> :>
        << <<"#", SP, "settings">>,
           <<"app", SP, "{">>,
           <<SP, "name", SP, "=", SP, "MyApp">>,
           <<>>,
           <<SP, SEP, SEP, SP, "nested">>,
           <<SP, "database", SP, "{">>,
           <<SP, SP, "host", SP, "=", SP, QQ, "localhost", QQ>>,
           <<SP, "}">>,
           <<"}">>,
           <<"host", SP, "=", SP, "h1", SP, "#", SP, "note">> >> )
 @@ ( <<"sub", CONF>> :>
        << <<"x", SP, "=", SP, "1">> >> )
 @@ ( <<"twice", CONF>> :>
        << <<"include", SP, QQ, "sub", CONF, QQ>>,
           <<"x", SP, "=", SP, "2">>,
           <<"include", SP, QQ, "sub", CONF, QQ>>,
           <<"include", SP, "url", "(", QQ, "http", "://", "h", SEP, "u", QQ, ")">>,
           <<"y", SP, "=", SP, "2">>,
           <<"include", SP, "url", "(", QQ, "http", "://", "h", SEP, "u", QQ, ")">> >> )
 @@ ( <<"opt", CONF>> :>
        << <<"include", SP, "optional", "(", QQ, "missing", CONF, QQ, ")">>,
           <<"include", SP, "optional", "(", "url", "(", QQ, "http", "://", "h", SEP, "gone", QQ, ")", ")">>,
           <<"test", SP, "=", SP, QQ, "value", QQ>> >> )
 @@ ( <<"req", CONF>> :>
        << <<"include", SP, QQ, "missing", CONF, QQ>>,
           <<"a", SP, "=", SP, "1">> >> )
 @@ ( <<"optbad", CONF>> :>
        << <<"include", SP, "optional", "(", QQ, "e", SEP, "bad", CONF, QQ, ")">>,
           <<"ok", SP, "=", SP, "1">> >> )
 @@ ( <<"e", SEP, "bad", CONF>> :>
        << <<"k", SP, "=", SP, "1">>,
           <<"host", ":", SP, "localhost">>,
           <<"z", SP, "=", SP, "3">> >> )
 @@ ( <<"e", SEP, "ok", CONF>> :>
        << <<"w", SP, "=", SP, "1">> >> )
 @@ ( <<"d", SEP, "a", CONF>> :>
        << <<"a", SP, "=", SP, "1">>,
           <<"include", SP, QQ, "b", CONF, QQ>> >> )
 @@ ( <<"d", SEP, "b", CONF>> :>
        << <<"b", SP, "=", SP, "2">> >> )
 @@ ( <<"d", SEP, "notes", ".txt">> :>
        << <<"n", SP, "=", SP, "1">> >> )
 @@ ( <<"d", SEP, "sub", SEP, "c", CONF>> :>
        << <<"c", SP, "=", SP, "1">> >> )
 @@ ( <<"dir", CONF>> :>
        << <<"include", SP, "directory", "(", QQ, "d", QQ, ")">>,
           <<"include", SP, "optional", "(", "directory", "(", QQ, "nodir", QQ, ")", ")">> >> )
 @@ ( <<"optdir", CONF>> :>
        << <<"include", SP, "optional", "(", "directory", "(", QQ, "e", QQ, ")", ")">> >> )
 @@ ( <<"glob", CONF>> :>
        << <<"include", SP, "optional", "(", QQ, "zz", "*", QQ, ")">>,
           <<"include", SP, QQ, "d", SEP, "*", CONF, QQ>> >> )
 @@ ( <<"optglob", CONF>> :>
        << <<"include", SP, "optional", "(", QQ, "e", SEP, "*", CONF, QQ, ")">> >> )
 @@ ( <<"reqglob", CONF>> :>
        << <<"include", SP, QQ, "zz", "*", QQ>> >> )
 @@ ( <<"self", CONF>> :>
        << <<"x", SP, "=", SP, "1">>,
           <<"include", SP, QQ, "self", CONF, QQ>>,
           <<"y", SP, "=", SP, "1">> >> )
 @@ ( <<"ping", CONF>> :>
        << <<"include", SP, QQ, "pong", CONF, QQ>>,
           <<"a", SP, "=", SP, "1">> >> )
 @@ ( <<"pong", CONF>> :>
        << <<"include", SP, QQ, "ping", CONF, QQ>>,
           <<"b", SP, "=", SP, "1">> >> )
 @@ ( <<"mod", CONF>> :>
        << <<"include", SP, "required", SP, QQ, "sub", CONF, QQ>>,
           <<"include", SP, "optional", SP, QQ, "missing", CONF, QQ>> >> )
 @@ ( <<"over", CONF>> :>
        << <<"include", SP, QQ, "d", SEP, "b", CONF, QQ>>,
           <<"b", SP, "=", SP, "3">> >> )
 @@ ( <<"coll", CONF>> :>
        << <<"a", SP, "{">>,
           <<SP, "b", SP, "=", SP, "1">>,
           <<"}">>,
           <<"a", "_", "b", SP, "=", SP, "2">> >> )
 @@ ( <<"quote", CONF>> :>
        << <<"a", SP, "=", SP, QQ, QQ>>,
           <<"b", SP, "=">>,
           <<"c", SP, "=", SP, QQ>> >> )

\* the directories
Dirs == { <<".">>, <<"d">>, <<"d", SEP, "sub">>, <<"e">> }

\* every name of the file system, in lexical order (the order of os.ReadDir
\* and of filepath.Glob)
Listing ==
    << <<"application", CONF>>,
       <<"coll", CONF>>,
       <<"d">>,
       <<"d", SEP, "a", CONF>>,
       <<"d", SEP, "b", CONF>>,
       <<"d", SEP, "notes", ".txt">>,
       <<"d", SEP, "sub">>,
       <<"d", SEP, "sub", SEP, "c", CONF>>,
       <<"dir", CONF>>,
       <<"e">>,
       <<"e", SEP, "bad", CONF>>,
       <<"e", SEP, "ok", CONF>>,
       <<"glob", CONF>>,
       <<"mod", CONF>>,
       <<"opt", CONF>>,
       <<"optbad", CONF>>,
       <<"optdir", CONF>>,
       <<"optglob", CONF>>,
       <<"over", CONF>>,
       <<"ping", CONF>>,
       <<"pong", CONF>>,
       <<"quote", CONF>>,
       <<"req", CONF>>,
       <<"reqglob", CONF>>,
       <<"self", CONF>>,
       <<"sub", CONF>>,
       <<"twice", CONF>> >>

IsFile(p) == p \in DOMAIN FileText
IsDir(p) == p \in Dirs

\* HTTP: the resources that answer, with status code and body
HttpText ==
    ( <<"http", "://", "h", SEP, "u">> :>
        [status |-> 200, body |-> << <<"y", SP, "=", SP, "1">> >>] )
 @@ ( <<"http", "://", "h", SEP, "gone">> :>
        [status |-> 404, body |-> <<>>] )

\* url.Parse(u) fails: the first path segment holds a colon and no scheme
UrlParseFails(u) == u # <<>> /\ u[1] \in {":", "://"}

\* url.Parse(u).Scheme
UrlScheme(u) == IF Len(u) >= 2 /\ u[2] = "://" THEN u[1] ELSE ""

-----------------------------------------------------------------------------
(* Maps (Go map[string]string) *)

EmptyMap == [k \in {} |-> <<>>]

Put(m, k, v) == [x \in DOMAIN m \cup {k} |-> IF x = k THEN v ELSE m[x]]

-----------------------------------------------------------------------------
(* Options *)

\* DefaultOptions().IncludePatterns
IncludePatterns == << <<CONF>>, <<".hocon">> >>

\* DefaultOptions()
DefaultOptions ==
    [IgnoreErrors |-> FALSE, OverwriteEnv |-> TRUE, DefaultPrefix |-> <<>>]

\* the Options a caller passes
OptionsSet ==
    { DefaultOptions,
      [IgnoreErrors |-> FALSE, OverwriteEnv |-> FALSE, DefaultPrefix |-> <<>>],
      [IgnoreErrors |-> TRUE, OverwriteEnv |-> TRUE, DefaultPrefix |-> <<>>],
      [IgnoreErrors |-> FALSE, OverwriteEnv |-> TRUE, DefaultPrefix |-> <<"pre">>],
      [IgnoreErrors |-> FALSE, OverwriteEnv |-> TRUE, DefaultPrefix |-> <<"prod">>] }

\* the prefixes a caller passes to SetPrefix
PrefixSet == { <<"prod">>, <<SP, "pre">> }

\* the fileName arguments a caller passes to Load
RootSet ==
    { <<>>,
      << <<"application", CONF>> >>,
      << <<"twice", CONF>> >>,
      << <<"opt", CONF>> >>,
      << <<"req", CONF>> >>,
      << <<"optbad", CONF>> >>,
      << <<"dir", CONF>> >>,
      << <<"optdir", CONF>> >>,
      << <<"glob", CONF>> >>,
      << <<"optglob", CONF>> >>,
      << <<"reqglob", CONF>> >>,
      << <<"self", CONF>> >>,
      << <<"ping", CONF>> >>,
      << <<"missing", CONF>> >>,
      << <<"mod", CONF>> >>,
      << <<"over", CONF>> >>,
      << <<"coll", CONF>> >>,
      << <<"quote", CONF>> >>,
      << <<"e", SEP, "bad", CONF>>, <<"sub", CONF>> >> }

\* the environments the process starts with
InitialEnvs ==
    { (<<"APP", "_", "NAME">> :> <<"old">>) @@ (<<"X">> :> <<"old">>) }

-----------------------------------------------------------------------------
(* Pure parts of the program *)

\* Config.SetPrefix: the stored prefix
\* a SetPrefix that adds to the prefix already there
PrefixOf_Accumulate(p) == prefix \o ToUpper(TrimSpace(p)) \o <<"_">>

PrefixOf(p) == ToUpper(TrimSpace(p)) \o <<"_">>

\* loadFile: the lines the scanner skips
IsSkipped(line) ==
    line = <<>> \/ HasPrefix(line, <<"#">>) \/ HasPrefix(line, <<SEP, SEP>>)

\* what processValue yields when the slice expression value[1 : len(value)-1]
\* is out of range: a run-time panic, no string
SliceOutOfRange == <<"panic: slice bounds out of range">>

\* Config.processValue
processValue(value) ==
    LET quoted == HasPrefix(value, <<QQ>>) /\ HasSuffix(value, <<QQ>>)
        unq == IF quoted THEN SubSeq(value, 2, Len(value) - 1) ELSE value
        idx == Index(unq, "#")
        cut == IF idx # 0 THEN SubSeq(unq, 1, idx - 1) ELSE unq
    IN  IF quoted /\ 1 > Len(value) - 1 THEN SliceOutOfRange ELSE TrimSpace(cut)

\* a buildFullKey that keeps only the innermost block
buildFullKey_Innermost(keyStack, key) ==
    IF Len(keyStack) > 0 THEN keyStack[Len(keyStack)] \o <<".">> \o key ELSE key

\* Config.buildFullKey
buildFullKey(keyStack, key) ==
    IF Len(keyStack) > 0 THEN Join(keyStack, ".") \o <<".">> \o key ELSE key

\* Config.parseLine: what a trimmed line is
LineKind(line) ==
    IF HasPrefix(line, <<"include", SP>>) THEN "include"
    ELSE IF HasSuffix(line, <<"{">>) THEN "open"
    ELSE IF line = <<"}">> THEN "close"
    ELSE IF Len(SplitN2(line, "=")) # 2 THEN "invalid"
    ELSE IF HasPrefix(TrimSpace(SplitN2(line, "=")[2]), <<"include">>) THEN "valueInclude"
    ELSE "assign"

\* a handleInclude that takes a leading word `optional` or `required`, followed
\* by white space, as the modifier
handleInclude_Word(value) ==
    LET r == TrimSpace(TrimPrefix(value, <<"include">>))
        word == IF Len(r) >= 2 /\ r[1] \in {"optional", "required"} /\ r[2] = SP
                THEN r[1] ELSE "none"
        s1 == Trim(IF word = "none" THEN r ELSE TrimSpace(SubSeq(r, 3, Len(r))), {QQ, SQ})
        req == word # "optional"
        strip(pre) == Trim(TrimSuffix(TrimPrefix(s1, pre), <<")">>), {QQ, SQ})
    IN  IF HasPrefix(s1, <<"url", "(">>)
        THEN [kind |-> "url", target |-> strip(<<"url", "(">>), required |-> req]
        ELSE IF HasPrefix(s1, <<"directory", "(">>)
        THEN [kind |-> "directory", target |-> strip(<<"directory", "(">>), required |-> req]
        ELSE IF Contains(s1, "*")
        THEN [kind |-> "glob", target |-> s1, required |-> req]
        ELSE [kind |-> "file", target |-> s1, required |-> req]

\* Config.handleInclude: the directive as {kind, target, required}
handleInclude(value) ==
    LET s0 == Trim(TrimSpace(TrimPrefix(value, <<"include">>)), {QQ, SQ})
        isOpt == HasPrefix(s0, <<"optional", "(">>) /\ HasSuffix(s0, <<")">>)
        s1 == IF isOpt
              THEN Trim(TrimSuffix(TrimPrefix(s0, <<"optional", "(">>), <<")">>), {QQ, SQ})
              ELSE s0
        strip(pre) == Trim(TrimSuffix(TrimPrefix(s1, pre), <<")">>), {QQ, SQ})
    IN  IF HasPrefix(s1, <<"url", "(">>)
        THEN [kind |-> "url", target |-> strip(<<"url", "(">>), required |-> ~isOpt]
        ELSE IF HasPrefix(s1, <<"directory", "(">>)
        THEN [kind |-> "directory", target |-> strip(<<"directory", "(">>), required |-> ~isOpt]
        ELSE IF Contains(s1, "*")
        THEN [kind |-> "glob", target |-> s1, required |-> ~isOpt]
        ELSE [kind |-> "file", target |-> s1, required |-> ~isOpt]

\* Config.parseLine, the part that reads the line: what the line is and what
\* parseLine takes from it.  name is the key pushed by a block-open, key and value
\* the two sides of an assignment, directive what handleInclude makes of an
\* include (an `include ...` line whole, a `key = include ...` line by its value).
parseLine(text) ==
    LET line == TrimSpace(text)
        shape == IF IsSkipped(line) THEN "skip" ELSE LineKind(line)
        parts == SplitN2(line, "=")
        kind == IF shape = "assign" /\ processValue(TrimSpace(parts[2])) = SliceOutOfRange
                THEN "panic"
                ELSE shape
    IN  [kind |-> kind,
         name |-> IF kind = "open" THEN TrimSpace(TrimSuffix(line, <<"{">>)) ELSE <<>>,
         key |-> IF kind = "assign" THEN TrimSpace(parts[1]) ELSE <<>>,
         value |-> IF kind = "assign" THEN processValue(TrimSpace(parts[2])) ELSE <<>>,
         directive |-> IF kind = "include" THEN handleInclude(line)
                       ELSE IF kind = "valueInclude" THEN handleInclude(TrimSpace(parts[2]))
                       ELSE [kind |-> "none", target |-> <<>>, required |-> FALSE]]

\* the lines of every source, file or URL body, as parseLine reads them
Parsed ==
    [p \in DOMAIN FileText |-> [i \in 1..Len(FileText[p]) |-> parseLine(FileText[p][i])]]
    @@ [u \in DOMAIN HttpText |->
          [i \in 1..Len(HttpText[u].body) |-> parseLine(HttpText[u].body[i])]]

\* handleFileInclude, handleDirectoryInclude, handleGlobInclude: the path resolved
\* against the directory of the including file
Resolve(target, currentFile) ==
    IF ~IsAbs(target) THEN PathJoin(Dir(currentFile), target) ELSE target

\* filepath.Glob(pattern): the names that match, in lexical order
Glob(pattern) == SelectSeq(Listing, LAMBDA p : Match(pattern, p))

\* a directory include that loads every regular file of dir, whatever its name
DirectoryFiles_All(dir) ==
    SelectSeq(Listing, LAMBDA p : Dir(p) = dir /\ ~IsDir(p))

\* handleDirectoryInclude: the entries of dir that are loaded, in os.ReadDir's order
DirectoryFiles(dir) ==
    SelectSeq(Listing,
              LAMBDA p : /\ Dir(p) = dir
                         /\ ~IsDir(p)
                         /\ \E i \in 1..Len(IncludePatterns) : HasSuffix(Base(p), IncludePatterns[i]))

\* LoadWithOptions: the default files, when no fileName is passed
RECURSIVE DefaultFiles(_)
DefaultFiles(patterns) ==
    IF patterns = <<>> THEN <<>>
    ELSE Glob(<<"application">> \o Head(patterns)) \o DefaultFiles(Tail(patterns))

\* applyVariables: the environment name of a key
EnvKey(key) == prefix \o ToUpper(ReplaceAll(key, ".", "_"))

\* os.Setenv(name, _) fails: an empty name, or one holding "="
SetenvFails(name) == name = <<>> \/ Contains(name, "=")

-----------------------------------------------------------------------------
(* The call stack.  A frame is one activation of LoadWithOptions, loadFile, *)
(* handleURLInclude (scanning the body) or of an include handler that calls *)
(* loadFile for each path of `pending`.                                     *)

Frame(fn, path, required, pending) ==
    [fn |-> fn, path |-> path, pos |-> 1, keyStack |-> <<>>,
     required |-> required, pending |-> pending]

Scanners == {"loadFile", "handleURLInclude"}
Includers == {"handleFileInclude", "handleDirectoryInclude", "handleGlobInclude"}

Running == stack # <<>>
Top == Head(stack)

\* the lines a scanning frame reads
LinesOf(f) == IF f.fn = "loadFile" THEN FileText[f.path] ELSE HttpText[f.path].body

\* a loadFile that does not consult the ledger: a file it already holds is opened
\* and read again
CallLoadFile_NoMark(filePath, below) ==
    IF ~IsFile(filePath)
    THEN [stack |-> below, ret |-> "err",
          loaded |-> loadedFiles \cup {filePath}, opened |-> FALSE]
    ELSE [stack |-> <<Frame("loadFile", filePath, TRUE, <<>>)>> \o below, ret |-> "none",
          loaded |-> loadedFiles \cup {filePath}, opened |-> TRUE]

\* loadFile(filePath), up to the scanner loop: the ledger is consulted and marked,
\* then the file is opened.  `below` is the caller's stack.
CallLoadFile(filePath, below) ==
    IF filePath \in loadedFiles
    THEN [stack |-> below, ret |-> "ok", loaded |-> loadedFiles, opened |-> FALSE]
    ELSE IF ~IsFile(filePath)
    THEN [stack |-> below, ret |-> "err",
          loaded |-> loadedFiles \cup {filePath}, opened |-> FALSE]
    ELSE [stack |-> <<Frame("loadFile", filePath, TRUE, <<>>)>> \o below, ret |-> "none",
          loaded |-> loadedFiles \cup {filePath}, opened |-> TRUE]

\* history: one more source was read
NoteRead(h, yes, src) == IF yes THEN [h EXCEPT !.reads = Append(@, src)] ELSE h

\* applyVariables: the environments a sweep over the keys of K can leave.  Go
\* ranges over the map in any order, so of the keys that share a name any one
\* may be the first (OverwriteEnv off) or the last (on) to be set.
\* an applyVariables that sets every name
Skips_Never(overwrite, name) == FALSE

\* applyVariables: the name is left alone (!opts.OverwriteEnv and LookupEnv finds it)
Skips(overwrite, name) == ~overwrite /\ name \in DOMAIN env

\* one name of the sweep: left alone, or set from any key that carries it
SweepName(n, rest, K, overwrite) ==
    IF Skips(overwrite, n)
    THEN rest
    ELSE { Put(e, n, variables[k]) : e \in rest, k \in {j \in K : EnvKey(j) = n} }

RECURSIVE Sweeps(_, _, _)
Sweeps(names, K, overwrite) ==
    IF names = {} THEN {env}
    ELSE UNION { SweepName(n, Sweeps(names \ {n}, K, overwrite), K, overwrite)
                 : n \in {CHOOSE x \in names : TRUE} }

\* applyVariables(opts): the outcomes {env, err}.  A Setenv that fails ends the
\* sweep: the keys visited before it are any subset of the others.
applyVariables(o) ==
    LET keys == DOMAIN variables
        bad == {k \in keys : SetenvFails(EnvKey(k))}
        good == keys \ bad
        namesOf(K) == {EnvKey(k) : k \in K}
        set(K) == {n \in namesOf(K) : ~Skips(o.OverwriteEnv, n)}
        sweep(K, failed) ==
            { [env |-> e, err |-> failed, set |-> set(K)]
              : e \in Sweeps(namesOf(K), K, o.OverwriteEnv) }
    IN  IF bad = {}
        THEN sweep(good, FALSE)
        ELSE UNION { sweep(K, TRUE) : K \in SUBSET good }

-----------------------------------------------------------------------------
(* Initial state: NewConfig(), and a process environment *)

\* History of the session, for the properties; the program does not read it.
\*   env0        the environment when the running/last Load began
\*   reads       the sources opened or fetched since the ledger was last empty
\*   reads0      how many of them there were when the running/last Load began
\*   after       the running/last Load has a DefaultPrefix and follows, with no
\*               ClearVariables between, a Load that returned nil under another one
\*   published   the names set by the running/last Load
\*   done        the files loadFile has read to the end and published
\*   snap        the table when the last include directive was reached
\*   reqMissing  the running/last Load met a required include of a missing source
\*   invalid     the running/last Load met a line that is a syntax error
\*   globbed     the files matched by the glob includes of the running/last Load
\*   dirs        the directories listed by the required directory includes of it
\*   setPrefix   the argument of the last direct SetPrefix call, <<>> when none
\*   prefixArg   the argument of the last SetPrefix, direct or through DefaultPrefix
NoHist ==
    [env0 |-> EmptyMap, reads |-> <<>>, reads0 |-> 0, after |-> FALSE, published |-> {}, done |-> {},
     snap |-> EmptyMap, reqMissing |-> FALSE, invalid |-> FALSE,
     globbed |-> {}, dirs |-> {}, setPrefix |-> <<>>, prefixArg |-> <<>>]

\* how many goroutines call the API
Goroutines == 2

GoIds == 1..Goroutines

\* a goroutine before its call
\*   call      the argument of the loadFile that is starting
\*   frames    the loadFile calls that are scanning, innermost first
\*   hit       what the ledger check of the starting loadFile found
\*   err       the loadFile that just returned, returned an error
\*   out       what the call of the goroutine returned
\*   opened    the files this goroutine has opened (history only)
Idle ==
    [op |-> "none", arg |-> <<>>, pc |-> "idle", call |-> <<>>, frames |-> <<>>,
     hit |-> FALSE, err |-> FALSE, out |-> "none", opened |-> {}]

Init ==
    /\ prefix = <<>>
    /\ loadedFiles = {}
    /\ variables = EmptyMap
    /\ env \in InitialEnvs
    /\ stack = <<>>
    /\ ret = "none"
    /\ opts = DefaultOptions
    /\ result = "none"
    /\ ops = 0
    /\ hist = NoHist
    /\ mutex = [writer |-> 0, readers |-> {}]
    /\ goroutines = [g \in GoIds |-> Idle]

-----------------------------------------------------------------------------
(* The API *)

\* Config.SetPrefix(p)
SetPrefix(p) ==
    /\ ~Running
    /\ ops < MaxOps
    /\ prefix' = PrefixOf(p)
    /\ ops' = ops + 1
    /\ hist' = [hist EXCEPT !.setPrefix = p, !.prefixArg = p, !.published = {}]
    /\ UNCHANGED <<loadedFiles, variables, env, stack, ret, opts, result>>
    /\ UNCHANGED <<mutex, goroutines>>

\* Config.ClearVariables()
ClearVariables ==
    /\ ~Running
    /\ ops < MaxOps
    /\ variables' = EmptyMap
    /\ loadedFiles' = {}
    /\ ops' = ops + 1
    /\ hist' = [hist EXCEPT !.done = {}, !.reads = <<>>, !.reads0 = 0, !.published = {}]
    /\ UNCHANGED <<prefix, env, stack, ret, opts, result>>
    /\ UNCHANGED <<mutex, goroutines>>

\* Config.LoadWithOptions(o, fileName...), up to the first call of loadFile
LoadWithOptions(o, fileName) ==
    /\ ~Running
    /\ ops < MaxOps
    /\ ops' = ops + 1
    /\ opts' = o
    /\ prefix' = IF o.DefaultPrefix # <<>> THEN PrefixOf(o.DefaultPrefix) ELSE prefix
    /\ ret' = "none"
    /\ hist' = [hist EXCEPT !.env0 = env, !.reads0 = Len(hist.reads),
                            !.after = /\ result = "ok"
                                      /\ hist.done # {}
                                      /\ o.DefaultPrefix # <<>>
                                      /\ opts.DefaultPrefix \notin {<<>>, o.DefaultPrefix},
                            !.published = {}, !.reqMissing = FALSE,
                            !.invalid = FALSE, !.globbed = {}, !.dirs = {},
                            !.prefixArg = IF o.DefaultPrefix # <<>>
                                          THEN o.DefaultPrefix ELSE @]
    /\ LET files == IF fileName = <<>> THEN DefaultFiles(IncludePatterns) ELSE fileName
       IN  IF fileName = <<>> /\ files = <<>>
           THEN /\ result' = "err"      \* no default configuration files found
                /\ stack' = <<>>
           ELSE /\ result' = "none"
                /\ stack' = <<Frame("Load", <<>>, TRUE, files)>>
    /\ UNCHANGED <<loadedFiles, variables, env>>
    /\ UNCHANGED <<mutex, goroutines>>

\* LoadWithOptions: the loop over the files
LoadLoop ==
    /\ Running
    /\ Top.fn = "Load"
    /\ IF ret = "err" /\ ~opts.IgnoreErrors
       THEN /\ stack' = <<>>
            /\ result' = "err"
            /\ ret' = "none"
            /\ UNCHANGED <<loadedFiles, hist>>
       ELSE IF Top.pending = <<>>
       THEN /\ stack' = <<>>
            /\ result' = "ok"
            /\ ret' = "none"
            /\ UNCHANGED <<loadedFiles, hist>>
       ELSE LET file == Head(Top.pending)
                c == CallLoadFile(file, <<[Top EXCEPT !.pending = Tail(@)]>> \o Tail(stack))
            IN  /\ stack' = c.stack
                /\ ret' = c.ret
                /\ loadedFiles' = c.loaded
                /\ hist' = NoteRead(hist, c.opened, file)
                /\ UNCHANGED result
    /\ UNCHANGED <<prefix, variables, env, opts, ops>>
    /\ UNCHANGED <<mutex, goroutines>>

\* an include handler that returns every error of loadFile, optional or not
IncludeAborts_Always(required, r) == r = "err"

\* handleFileInclude, handleDirectoryInclude, handleGlobInclude: whether the error
\* r of loadFile ends the include (err != nil && required)
IncludeAborts(required, r) == r = "err" /\ required

\* handleURLInclude, handleDirectoryInclude, handleGlobInclude: what is returned
\* when the source cannot be fetched, listed or matched
Unavailable(required) == IF required THEN "err" ELSE "ok"

\* the orders in which a list can be walked
Orders(list) ==
    LET n == Len(list)
        perms == {f \in [1..n -> 1..n] : \A i, j \in 1..n : f[i] = f[j] => i = j}
    IN  { [i \in 1..n |-> list[f[i]]] : f \in perms }

\* loadFile / handleURLInclude: one line of the scanner loop that is no include.
\* parseLine returns at once; a syntax error ends the scan unless IgnoreErrors.
ScanLine ==
    /\ Running
    /\ Top.fn \in Scanners
    /\ ret = "none"
    /\ Top.pos <= Len(LinesOf(Top))
    /\ LET l == Parsed[Top.path][Top.pos]
           kind == l.kind
           next == [Top EXCEPT !.pos = @ + 1]
       IN  /\ kind \in {"skip", "open", "close", "invalid", "assign"}
           /\ CASE kind = "skip" ->
                     /\ stack' = <<next>> \o Tail(stack)
                     /\ UNCHANGED <<variables, ret>>
                [] kind = "open" ->
                     /\ stack' = <<[next EXCEPT !.keyStack = Append(@, l.name)]>>
                                 \o Tail(stack)
                     /\ UNCHANGED <<variables, ret>>
                [] kind = "close" ->
                     /\ stack' = <<[next EXCEPT !.keyStack =
                                      IF Len(@) > 0 THEN SubSeq(@, 1, Len(@) - 1) ELSE @]>>
                                 \o Tail(stack)
                     /\ UNCHANGED <<variables, ret>>
                [] kind = "invalid" ->
                     /\ IF ~opts.IgnoreErrors
                        THEN stack' = Tail(stack) /\ ret' = "err"
                        ELSE stack' = <<next>> \o Tail(stack) /\ ret' = "none"
                     /\ UNCHANGED variables
                [] kind = "assign" ->
                     /\ variables' = Put(variables,
                                         buildFullKey(Top.keyStack, l.key), l.value)
                     /\ stack' = <<next>> \o Tail(stack)
                     /\ UNCHANGED ret
           /\ hist' = [hist EXCEPT !.invalid = @ \/ (kind = "invalid")]
    /\ UNCHANGED <<prefix, loadedFiles, env, opts, result, ops>>
    /\ UNCHANGED <<mutex, goroutines>>

\* parseLine panics in processValue: the panic unwinds every call, nothing
\* recovers it, and the process ends
ScanPanic ==
    /\ Running
    /\ Top.fn \in Scanners
    /\ ret = "none"
    /\ Top.pos <= Len(LinesOf(Top))
    /\ Parsed[Top.path][Top.pos].kind = "panic"
    /\ stack' = <<>>
    /\ result' = "panic"
    /\ ops' = MaxOps
    /\ UNCHANGED <<prefix, loadedFiles, variables, env, ret, opts, hist>>
    /\ UNCHANGED <<mutex, goroutines>>

\* handleURLInclude(urlStr, required), up to the scanner loop: no body to scan
UrlFails(u) ==
    \/ UrlParseFails(u)
    \/ UrlScheme(u) \notin {"http", "https"}
    \/ u \notin DOMAIN HttpText
    \/ HttpText[u].status # 200

\* http.Client.Get is called for u
UrlFetched(u) == ~UrlParseFails(u) /\ UrlScheme(u) \in {"http", "https"}

\* the source an include directive names does not exist
SourceMissing(d, path) ==
    CASE d.kind = "url" -> d.target \notin DOMAIN HttpText \/ HttpText[d.target].status # 200
      [] d.kind = "directory" -> ~IsDir(path)
      [] d.kind = "file" -> ~IsFile(path) /\ ~IsDir(path)
      [] OTHER -> FALSE

\* parseLine on an include line: handleInclude and the handler it chooses, up to
\* the handler's first call of loadFile
ScanInclude ==
    /\ Running
    /\ Top.fn \in Scanners
    /\ ret = "none"
    /\ Top.pos <= Len(LinesOf(Top))
    /\ LET kind == Parsed[Top.path][Top.pos].kind
           below == <<[Top EXCEPT !.pos = @ + 1]>> \o Tail(stack)
           d == Parsed[Top.path][Top.pos].directive
           fail == Unavailable(d.required)
           path == Resolve(d.target, Top.path)
           h == [hist EXCEPT !.snap = variables,
                             !.reqMissing = @ \/ (d.required /\ SourceMissing(d, path))]
       IN  /\ kind \in {"include", "valueInclude"}
           /\ CASE d.kind = "url" ->
                     /\ IF UrlFails(d.target)
                        THEN stack' = below /\ ret' = fail
                        ELSE /\ stack' = <<Frame("handleURLInclude", d.target, d.required, <<>>)>>
                                         \o below
                             /\ ret' = "none"
                     /\ hist' = NoteRead(h, UrlFetched(d.target), d.target)
                [] d.kind = "directory" ->
                     /\ IF ~IsDir(path)
                        THEN stack' = below /\ ret' = fail
                        ELSE \E files \in Orders(DirectoryFiles(path)) :
                               /\ stack' = <<Frame("handleDirectoryInclude", path,
                                                   d.required, files)>> \o below
                               /\ ret' = "none"
                     /\ hist' = IF IsDir(path) /\ d.required
                                THEN [h EXCEPT !.dirs = @ \cup {path}] ELSE h
                [] d.kind = "glob" ->
                     /\ IF BadPattern(path) \/ (Glob(path) = <<>> /\ d.required)
                        THEN stack' = below /\ ret' = fail
                        ELSE /\ stack' = <<Frame("handleGlobInclude", path,
                                                 d.required, Glob(path))>> \o below
                             /\ ret' = "none"
                     /\ hist' = IF BadPattern(path) THEN h
                                ELSE [h EXCEPT !.globbed =
                                        @ \cup {Glob(path)[i] : i \in 1..Len(Glob(path))}]
                [] d.kind = "file" ->
                     /\ stack' = <<Frame("handleFileInclude", path, d.required, <<path>>)>>
                                 \o below
                     /\ ret' = "none"
                     /\ hist' = h
    /\ UNCHANGED <<prefix, loadedFiles, variables, env, opts, result, ops>>
    /\ UNCHANGED <<mutex, goroutines>>

\* handleFileInclude, handleDirectoryInclude, handleGlobInclude: the calls of
\* loadFile.  An error of loadFile is returned when the include is required and
\* dropped otherwise.
IncludeLoop ==
    /\ Running
    /\ Top.fn \in Includers
    /\ IF IncludeAborts(Top.required, ret)
       THEN /\ stack' = Tail(stack)
            /\ ret' = "err"
            /\ UNCHANGED <<loadedFiles, hist>>
       ELSE IF Top.pending = <<>>
       THEN /\ stack' = Tail(stack)
            /\ ret' = "ok"
            /\ UNCHANGED <<loadedFiles, hist>>
       ELSE LET file == Head(Top.pending)
                c == CallLoadFile(file, <<[Top EXCEPT !.pending = Tail(@)]>> \o Tail(stack))
            IN  /\ stack' = c.stack
                /\ ret' = c.ret
                /\ loadedFiles' = c.loaded
                /\ hist' = NoteRead(hist, c.opened, file)
    /\ UNCHANGED <<prefix, variables, env, opts, result, ops>>
    /\ UNCHANGED <<mutex, goroutines>>

\* loadFile / handleURLInclude: parseLine has returned from an include
ScanReturn ==
    /\ Running
    /\ Top.fn \in Scanners
    /\ ret # "none"
    /\ IF ret = "err" /\ ~opts.IgnoreErrors
       THEN stack' = Tail(stack) /\ ret' = "err"
       ELSE ret' = "none" /\ UNCHANGED stack
    /\ UNCHANGED <<prefix, loadedFiles, variables, env, opts, result, ops, hist>>
    /\ UNCHANGED <<mutex, goroutines>>

\* loadFile: the lines are exhausted; applyVariables publishes the table
LoadFileEnd ==
    /\ Running
    /\ Top.fn = "loadFile"
    /\ ret = "none"
    /\ Top.pos > Len(LinesOf(Top))
    /\ \E out \in applyVariables(opts) :
         /\ env' = out.env
         /\ ret' = IF out.err THEN "err" ELSE "ok"
         /\ hist' = [hist EXCEPT !.published = @ \cup out.set,
                                 !.done = IF out.err THEN @ ELSE @ \cup {Top.path}]
    /\ stack' = Tail(stack)
    /\ UNCHANGED <<prefix, loadedFiles, variables, opts, result, ops>>
    /\ UNCHANGED <<mutex, goroutines>>

\* handleURLInclude: the body is exhausted; nothing is published
UrlEnd ==
    /\ Running
    /\ Top.fn = "handleURLInclude"
    /\ ret = "none"
    /\ Top.pos > Len(LinesOf(Top))
    /\ stack' = Tail(stack)
    /\ ret' = "ok"
    /\ UNCHANGED <<prefix, loadedFiles, variables, env, opts, result, ops, hist>>
    /\ UNCHANGED <<mutex, goroutines>>

-----------------------------------------------------------------------------
(* Specification *)

Next ==
    \/ \E p \in PrefixSet : SetPrefix(p)
    \/ ClearVariables
    \/ \E o \in OptionsSet, f \in RootSet : LoadWithOptions(o, f)
    \/ LoadLoop
    \/ ScanLine
    \/ ScanPanic
    \/ ScanInclude
    \/ IncludeLoop
    \/ ScanReturn
    \/ LoadFileEnd
    \/ UrlEnd

Spec == Init /\ [][Next]_vars

\* the steps of a running Load: the program goes on until the call returns
Step ==
    \/ LoadLoop
    \/ ScanLine
    \/ ScanPanic
    \/ ScanInclude
    \/ IncludeLoop
    \/ ScanReturn
    \/ LoadFileEnd
    \/ UrlEnd

FairSpec == Spec /\ WF_vars(Step)

-----------------------------------------------------------------------------
(* Concurrent callers: goroutines that share one Config.  Each goroutine makes
   one call; a step is one operation of Config.mutex or one access to the
   shared fields, so whatever the goroutines exclude they exclude through the
   mutex.  The files loaded here include other files only by plain path. *)

\* the files the goroutines load
GoFiles == { <<"sub", CONF>>, <<"d", SEP, "a", CONF>>, <<"req", CONF>> }

\* the calls a goroutine may make
GoCalls ==
    {[op |-> "Load", arg |-> f] : f \in GoFiles}
    \cup {[op |-> "SetPrefix", arg |-> <<"prod">>],
          [op |-> "GetVariable", arg |-> <<"x">>],
          [op |-> "ClearVariables", arg |-> <<>>]}

\* the places where a goroutine calls Lock, RLock, Unlock and RUnlock
LockAt == {"SetPrefix.Lock", "loadFile.Lock", "parseLine.Lock", "ClearVariables.Lock"}
RLockAt == {"applyVariables.RLock", "GetVariable.RLock"}
UnlockAt == {"SetPrefix.Unlock", "loadFile.Unlock", "parseLine.Unlock",
             "ClearVariables.Unlock"}
RUnlockAt == {"applyVariables.RUnlock", "GetVariable.RUnlock"}

\* the first statement of each call
Entry(op) ==
    CASE op = "Load" -> "loadFile.Lock"
      [] op = "SetPrefix" -> "SetPrefix.Lock"
      [] op = "GetVariable" -> "GetVariable.RLock"
      [] op = "ClearVariables" -> "ClearVariables.Lock"

\* the statement after Lock or RLock has returned
Locked(pc) ==
    CASE pc = "SetPrefix.Lock" -> "SetPrefix.Write"
      [] pc = "loadFile.Lock" -> "loadFile.Check"
      [] pc = "parseLine.Lock" -> "parseLine.Store"
      [] pc = "ClearVariables.Lock" -> "ClearVariables.Clear"
      [] pc = "applyVariables.RLock" -> "applyVariables.Sweep"
      [] pc = "GetVariable.RLock" -> "GetVariable.Read"

\* a parseLine that stores the value without taking the lock
StoreAt_NoLock == "parseLine.Store"

\* parseLine: what follows processValue and buildFullKey
StoreAt == "parseLine.Lock"

Go(g) == goroutines[g]
GoTop(g) == Head(goroutines[g].frames)
GoFrame(path) == [path |-> path, pos |-> 1, keyStack |-> <<>>, required |-> FALSE]

SeqVars == <<stack, ret, opts, result, ops, hist>>

\* go c.Load(f), go c.SetPrefix(p), go c.GetVariable(k), go c.ClearVariables()
GoCall(g, c) ==
    /\ Go(g).pc = "idle"
    /\ goroutines' = [goroutines EXCEPT ![g] =
                        [@ EXCEPT !.op = c.op, !.arg = c.arg, !.pc = Entry(c.op),
                                  !.call = IF c.op = "Load" THEN c.arg ELSE <<>>]]
    /\ UNCHANGED <<prefix, loadedFiles, variables, env, mutex>>
    /\ UNCHANGED SeqVars

\* c.mutex.Lock() returns: nobody holds the mutex
MutexLock(g) ==
    /\ Go(g).pc \in LockAt
    /\ mutex.writer = 0
    /\ mutex.readers = {}
    /\ mutex' = [mutex EXCEPT !.writer = g]
    /\ goroutines' = [goroutines EXCEPT ![g].pc = Locked(@)]
    /\ UNCHANGED <<prefix, loadedFiles, variables, env>>
    /\ UNCHANGED SeqVars

\* c.mutex.RLock() returns: nobody holds the mutex for writing
MutexRLock(g) ==
    /\ Go(g).pc \in RLockAt
    /\ mutex.writer = 0
    /\ mutex' = [mutex EXCEPT !.readers = @ \cup {g}]
    /\ goroutines' = [goroutines EXCEPT ![g].pc = Locked(@)]
    /\ UNCHANGED <<prefix, loadedFiles, variables, env>>
    /\ UNCHANGED SeqVars

\* c.mutex.Unlock(), and the return of SetPrefix and ClearVariables
MutexUnlock(g) ==
    /\ Go(g).pc \in UnlockAt
    /\ mutex' = [mutex EXCEPT !.writer = 0]
    /\ LET r == Go(g)
       IN  goroutines' = [goroutines EXCEPT ![g] =
             CASE r.pc = "loadFile.Unlock" ->
                    [r EXCEPT !.pc = IF r.hit THEN "loadFile.return" ELSE "loadFile.Open",
                              !.err = FALSE]
               [] r.pc = "parseLine.Unlock" -> [r EXCEPT !.pc = "loadFile.Scan"]
               [] OTHER -> [r EXCEPT !.pc = "return", !.out = "ok"]]
    /\ UNCHANGED <<prefix, loadedFiles, variables, env>>
    /\ UNCHANGED SeqVars

\* c.mutex.RUnlock(), deferred: applyVariables and with it loadFile return,
\* or GetVariable returns
MutexRUnlock(g) ==
    /\ Go(g).pc \in RUnlockAt
    /\ mutex' = [mutex EXCEPT !.readers = @ \ {g}]
    /\ LET r == Go(g)
       IN  goroutines' = [goroutines EXCEPT ![g] =
             IF r.pc = "applyVariables.RUnlock"
             THEN [r EXCEPT !.pc = "loadFile.return", !.frames = Tail(r.frames)]
             ELSE [r EXCEPT !.pc = "return", !.out = "ok"]]
    /\ UNCHANGED <<prefix, loadedFiles, variables, env>>
    /\ UNCHANGED SeqVars

\* loadFile: if c.loadedFiles[filePath]
LedgerCheck(g) ==
    /\ Go(g).pc = "loadFile.Check"
    /\ LET hit == Go(g).call \in loadedFiles
       IN  goroutines' = [goroutines EXCEPT ![g] =
              [@ EXCEPT !.hit = hit,
                        !.pc = IF hit THEN "loadFile.Unlock" ELSE "loadFile.Mark"]]
    /\ UNCHANGED <<prefix, loadedFiles, variables, env, mutex>>
    /\ UNCHANGED SeqVars

\* loadFile: c.loadedFiles[filePath] = true
LedgerMark(g) ==
    /\ Go(g).pc = "loadFile.Mark"
    /\ loadedFiles' = loadedFiles \cup {Go(g).call}
    /\ goroutines' = [goroutines EXCEPT ![g].pc = "loadFile.Unlock"]
    /\ UNCHANGED <<prefix, variables, env, mutex>>
    /\ UNCHANGED SeqVars

\* loadFile: os.Open(filePath)
OpenFile(g) ==
    /\ Go(g).pc = "loadFile.Open"
    /\ LET r == Go(g)
       IN  goroutines' = [goroutines EXCEPT ![g] =
             IF IsFile(r.call)
             THEN [r EXCEPT !.pc = "loadFile.Scan",
                            !.frames = <<GoFrame(r.call)>> \o r.frames,
                            !.opened = r.opened \cup {r.call}]
             ELSE [r EXCEPT !.pc = "loadFile.return", !.err = TRUE]]
    /\ UNCHANGED <<prefix, loadedFiles, variables, env, mutex>>
    /\ UNCHANGED SeqVars

\* loadFile: one turn of the scanner loop, parseLine up to its access to the
\* table or its call of loadFile; after the last line, the call of applyVariables
GoScan(g) ==
    /\ Go(g).pc = "loadFile.Scan"
    /\ LET f == GoTop(g)
           more == f.pos <= Len(FileText[f.path])
           l == IF more THEN Parsed[f.path][f.pos] ELSE parseLine(<<>>)
           next == [f EXCEPT !.pos = @ + 1]
           rest == Tail(Go(g).frames)
       IN  /\ more => l.kind \in {"skip", "open", "close", "invalid", "assign"}
                      \/ (l.kind = "include" /\ l.directive.kind = "file")
           /\ goroutines' = [goroutines EXCEPT ![g] =
                CASE ~more -> [@ EXCEPT !.pc = "applyVariables.RLock"]
                  [] more /\ l.kind = "skip" -> [@ EXCEPT !.frames = <<next>> \o rest]
                  [] more /\ l.kind = "open" ->
                       [@ EXCEPT !.frames =
                           <<[next EXCEPT !.keyStack = Append(@, l.name)]>> \o rest]
                  [] more /\ l.kind = "close" ->
                       [@ EXCEPT !.frames =
                           <<[next EXCEPT !.keyStack =
                                IF Len(@) > 0 THEN SubSeq(@, 1, Len(@) - 1) ELSE @]>>
                           \o rest]
                  [] more /\ l.kind = "invalid" ->
                       [@ EXCEPT !.pc = "loadFile.return", !.err = TRUE, !.frames = rest]
                  [] more /\ l.kind = "assign" -> [@ EXCEPT !.pc = StoreAt]
                  [] more /\ l.kind = "include" ->
                       [@ EXCEPT !.pc = "loadFile.Lock",
                                 !.call = Resolve(l.directive.target, f.path),
                                 !.frames = <<[next EXCEPT !.required =
                                                 l.directive.required]>> \o rest]]
    /\ UNCHANGED <<prefix, loadedFiles, variables, env, mutex>>
    /\ UNCHANGED SeqVars

\* parseLine: c.variables[fullKey] = value
TableStore(g) ==
    /\ Go(g).pc = "parseLine.Store"
    /\ LET f == GoTop(g)
           l == Parsed[f.path][f.pos]
       IN  /\ variables' = Put(variables, buildFullKey(f.keyStack, l.key), l.value)
           /\ goroutines' = [goroutines EXCEPT ![g] =
                [@ EXCEPT !.pc = "parseLine.Unlock",
                          !.frames = <<[f EXCEPT !.pos = f.pos + 1]>> \o Tail(@)]]
    /\ UNCHANGED <<prefix, loadedFiles, env, mutex>>
    /\ UNCHANGED SeqVars

\* applyVariables: the loop over c.variables, with the options of Load
GoSweep(g) ==
    /\ Go(g).pc = "applyVariables.Sweep"
    /\ \E out \in applyVariables(DefaultOptions) :
         /\ env' = out.env
         /\ goroutines' = [goroutines EXCEPT ![g] =
              [@ EXCEPT !.pc = "applyVariables.RUnlock", !.err = out.err]]
    /\ UNCHANGED <<prefix, loadedFiles, variables, mutex>>
    /\ UNCHANGED SeqVars

\* loadFile has returned: to LoadWithOptions, which returns what it got, or to
\* handleFileInclude, parseLine and the loadFile that was scanning
GoReturn(g) ==
    /\ Go(g).pc = "loadFile.return"
    /\ LET r == Go(g)
       IN  goroutines' = [goroutines EXCEPT ![g] =
             IF r.frames = <<>>
             THEN [r EXCEPT !.pc = "return", !.out = IF r.err THEN "err" ELSE "ok"]
             ELSE IF IncludeAborts(Head(r.frames).required, IF r.err THEN "err" ELSE "ok")
             THEN [r EXCEPT !.frames = Tail(r.frames)]
             ELSE [r EXCEPT !.pc = "loadFile.Scan", !.err = FALSE]]
    /\ UNCHANGED <<prefix, loadedFiles, variables, env, mutex>>
    /\ UNCHANGED SeqVars

\* SetPrefix: c.prefix = ...
PrefixWrite(g) ==
    /\ Go(g).pc = "SetPrefix.Write"
    /\ prefix' = PrefixOf(Go(g).arg)
    /\ goroutines' = [goroutines EXCEPT ![g].pc = "SetPrefix.Unlock"]
    /\ UNCHANGED <<loadedFiles, variables, env, mutex>>
    /\ UNCHANGED SeqVars

\* GetVariable: value, exists := c.variables[key]
TableRead(g) ==
    /\ Go(g).pc = "GetVariable.Read"
    /\ goroutines' = [goroutines EXCEPT ![g].pc = "GetVariable.RUnlock"]
    /\ UNCHANGED <<prefix, loadedFiles, variables, env, mutex>>
    /\ UNCHANGED SeqVars

\* ClearVariables: both maps are replaced by empty ones
TableClear(g) ==
    /\ Go(g).pc = "ClearVariables.Clear"
    /\ variables' = EmptyMap
    /\ loadedFiles' = {}
    /\ goroutines' = [goroutines EXCEPT ![g].pc = "ClearVariables.Unlock"]
    /\ UNCHANGED <<prefix, env, mutex>>
    /\ UNCHANGED SeqVars

GoNext ==
    \E g \in GoIds :
        \/ \E c \in GoCalls : GoCall(g, c)
        \/ MutexLock(g)
        \/ MutexRLock(g)
        \/ MutexUnlock(g)
        \/ MutexRUnlock(g)
        \/ LedgerCheck(g)
        \/ LedgerMark(g)
        \/ OpenFile(g)
        \/ GoScan(g)
        \/ TableStore(g)
        \/ GoSweep(g)
        \/ GoReturn(g)
        \/ PrefixWrite(g)
        \/ TableRead(g)
        \/ TableClear(g)

GoSpec == Init /\ [][GoNext]_vars

-----------------------------------------------------------------------------
(* What the text of a source says, read without the scanner's stack *)

\* line i of a source, trimmed
TextLine(lines, i) == TrimSpace(lines[i])

\* the lines of each kind
LinesOfKind(lines, kinds) ==
    {i \in 1..Len(lines) : ~IsSkipped(TextLine(lines, i)) /\ LineKind(TextLine(lines, i)) \in kinds}

\* the nesting depth in front of line i: blocks opened less blocks closed
Depth(lines, i) ==
    Cardinality({j \in LinesOfKind(lines, {"open"}) : j < i})
    - Cardinality({j \in LinesOfKind(lines, {"close"}) : j < i})

\* a source with no include, one block-open, block-close or assignment per line,
\* and every close after its open
WellFormedNoInclude(lines) ==
    /\ LinesOfKind(lines, {"include", "valueInclude", "invalid"}) = {}
    /\ \A i \in 1..(Len(lines) + 1) : Depth(lines, i) >= 0
    /\ Depth(lines, Len(lines) + 1) = 0

\* the block-open lines whose block is still open in front of line i
OpenAt(lines, i) ==
    {j \in LinesOfKind(lines, {"open"}) :
        j < i /\ \A m \in (j + 1)..i : Depth(lines, m) > Depth(lines, j)}

\* the names p1..pn of the blocks open in front of line i, outermost first
RECURSIVE BlockNames(_, _)
BlockNames(lines, js) ==
    IF js = {} THEN <<>>
    ELSE LET j == CHOOSE x \in js : \A y \in js : x <= y
         IN  <<TrimSpace(TrimSuffix(TextLine(lines, j), <<"{">>))>>
             \o BlockNames(lines, js \ {j})

\* the key p1.p2...pn.k of the assignment on line i
RECURSIVE Dotted(_)
Dotted(names) ==
    IF Len(names) = 1 THEN names[1] ELSE names[1] \o <<".">> \o Dotted(Tail(names))

AssignedKey(lines, i) ==
    Dotted(BlockNames(lines, OpenAt(lines, i))
           \o <<TrimSpace(SplitN2(TextLine(lines, i), "=")[1])>>)

\* the value v of the assignment on line i
AssignedValue(lines, i) == processValue(TrimSpace(SplitN2(TextLine(lines, i), "=")[2]))

\* the last assignment of a source to the key of line i
LastAssignment(lines, i) ==
    CHOOSE j \in LinesOfKind(lines, {"assign"}) :
        /\ AssignedKey(lines, j) = AssignedKey(lines, i)
        /\ \A m \in LinesOfKind(lines, {"assign"}) :
             AssignedKey(lines, m) = AssignedKey(lines, i) => m <= j

\* the well-formed sources without includes among the files
WellFormedFiles == {p \in DOMAIN FileText : WellFormedNoInclude(FileText[p])}

\* for each of them, the key and the final value each assignment line stands for
Assignments ==
    [p \in WellFormedFiles |->
        [i \in LinesOfKind(FileText[p], {"assign"}) |->
            [key |-> AssignedKey(FileText[p], i),
             value |-> AssignedValue(FileText[p], i),
             final |-> AssignedValue(FileText[p], LastAssignment(FileText[p], i))]]]

\* the keys each file assigns, whatever else its lines hold
FileKeys ==
    [p \in DOMAIN FileText |->
        {AssignedKey(FileText[p], i) : i \in LinesOfKind(FileText[p], {"assign"})}]

\* the environment name of a key under prefix pre: upper-cased, "." made "_"
NameUnder(pre, key) ==
    pre \o [i \in 1..Len(key) |-> IF key[i] = "." THEN "_" ELSE UpperSym(key[i])]

\* the keys of the table that are published under name n
KeysNamed(n) == {k \in DOMAIN variables : NameUnder(prefix, k) = n}

-----------------------------------------------------------------------------
(* C1 *)

\* the scanner of loadFile stores the assignment on the line it is at
C1_Store ==
    ( /\ ScanLine
      /\ Top.fn = "loadFile"
      /\ Top.path \in WellFormedFiles
      /\ Top.pos \in DOMAIN Assignments[Top.path] )
    => LET a == Assignments[Top.path][Top.pos]
       IN  variables' = Put(variables, a.key, a.value)

\* loadFile returns nil for a well-formed source: its keys are in the table and
\* in the environment
C1_Export ==
    ( /\ LoadFileEnd
      /\ ret' = "ok"
      /\ Top.path \in WellFormedFiles )
    => \A i \in DOMAIN Assignments[Top.path] :
         LET a == Assignments[Top.path][i]
             name == NameUnder(prefix, a.key)
         IN  /\ a.key \in DOMAIN variables
             /\ variables[a.key] = a.final
             /\ name \in DOMAIN env'
             /\ (opts.OverwriteEnv \/ name \notin DOMAIN env)
                  => \E k \in KeysNamed(name) : env'[name] = variables[k]

-----------------------------------------------------------------------------
(* C2 *)

\* the number of times a source was opened or fetched since the ledger was empty
TimesRead(h, src) == Cardinality({i \in DOMAIN h.reads : h.reads[i] = src})

\* C2: within one session a source (file path or URL) that was loaded once is
\* not read or fetched a second time, and while a source is scanned again the
\* table does not change.
C2_Idempotent ==
    [][ /\ \A i \in DOMAIN hist'.reads : TimesRead(hist', hist'.reads[i]) = 1
        /\ (Running /\ Top.fn \in Scanners /\ TimesRead(hist, Top.path) > 1)
             => variables' = variables ]_vars

-----------------------------------------------------------------------------
(* C3 *)

\* C3: with IgnoreErrors off, a Load that met a required include of a source
\* that does not exist does not return nil.
C3_RequiredMissingFails ==
    (result = "ok" /\ ~opts.IgnoreErrors) => ~hist.reqMissing

-----------------------------------------------------------------------------
(* C4 *)

\* the text between the first and the last double quote of a line
Quoted(line) ==
    LET a == Index(line, QQ)
        b == CHOOSE i \in 1..Len(line) : line[i] = QQ /\ \A j \in (i + 1)..Len(line) : line[j] # QQ
    IN  SubSeq(line, a + 1, b - 1)

\* the line is `include optional(...)` of a file, directory or URL that does not
\* exist, read in the source cur
OptionalMissing(line, cur) ==
    /\ HasPrefix(line, <<"include", SP, "optional", "(">>)
    /\ Contains(line, QQ)
    /\ LET t == Quoted(line)
       IN  IF Contains(line, "url")
           THEN t \notin DOMAIN HttpText \/ HttpText[t].status # 200
           ELSE IF Contains(line, "directory")
           THEN Resolve(t, cur) \notin Dirs
           ELSE ~Contains(t, "*") /\ Resolve(t, cur) \notin DOMAIN FileText \cup Dirs

\* parseLine returns from an optional include of a missing source: no error, no
\* change of the table, and the scanner goes on with the next line
C4_Return ==
    ( /\ ScanReturn
      /\ Top.pos > 1
      /\ OptionalMissing(TextLine(LinesOf(Top), Top.pos - 1), Top.path) )
    => /\ ret = "ok"
       /\ variables = hist.snap
       /\ stack' = stack
       /\ ret' = "none"

\* what a session that loads opt.conf alone reads: the file, and the answer 404
\* of the URL of its second include
OptReads == << <<"opt", CONF>>, <<"http", "://", "h", "/", "gone">> >>

\* Load returns after reading opt.conf alone: it succeeded and only `test` is there
C4_Scenario ==
    ( /\ LoadLoop
      /\ result' # "none"
      /\ hist.reads = OptReads )
    => /\ result' = "ok"
       /\ variables = (<<"test">> :> <<"value">>)

\* C4: an `include optional(...)` whose file, directory or URL does not exist
\* returns no error and adds no key to the table, and the lines after it are
\* processed: for opt.conf the load succeeds with only `test` in the table.
C4_OptionalMissing == [][C4_Return /\ C4_Scenario]_vars

\* C4 witness: opt.conf was loaded past its two optional includes of missing
\* sources; the load succeeded and `test` is the only key, exported as TEST
C4_Witness ==
    /\ result = "ok"
    /\ hist.reads = OptReads
    /\ <<"missing", CONF>> \in loadedFiles
    /\ variables = (<<"test">> :> <<"value">>)
    /\ prefix = <<>>
    /\ <<"TEST">> \in DOMAIN env
    /\ env[<<"TEST">>] = <<"value">>

-----------------------------------------------------------------------------
(* C5 *)

\* C5: with IgnoreErrors off, a Load that met a line that is a syntax error, in
\* whatever source, does not return nil.
C5_SyntaxErrorFatal ==
    (result = "ok" /\ ~opts.IgnoreErrors) => ~hist.invalid

-----------------------------------------------------------------------------
(* C6 *)

\* C6: when a Load returns nil, every key assigned in every file matched by a
\* glob include of that Load is in the table.
C6_GlobKeys ==
    [][ (LoadLoop /\ result' = "ok")
        => \A f \in hist.globbed \cap DOMAIN FileText : FileKeys[f] \subseteq DOMAIN variables' ]_vars

-----------------------------------------------------------------------------
(* C7 *)

\* the prefix that stands for P: P without the white space around it, upper-cased,
\* and one "_"
PrefixText(P) ==
    LET t == TrimSpace(P) IN [i \in 1..Len(t) |-> UpperSym(t[i])] \o <<"_">>

-----------------------------------------------------------------------------
(* C8 *)

\* with OverwriteEnv off, what was in the environment when the Load began is still
\* there, unchanged
C8_Preserves ==
    ~opts.OverwriteEnv
    => \A n \in DOMAIN hist.env0 : n \in DOMAIN env /\ env[n] = hist.env0[n]

\* with OverwriteEnv on, after a Load that returned nil every name it exported
\* holds the table's value of a key of that name
C8_Replaces ==
    (opts.OverwriteEnv /\ result = "ok")
    => \A n \in hist.published : \E k \in KeysNamed(n) : env[n] = variables[k]

\* C8: with OverwriteEnv = false a load never changes an environment variable that
\* existed before it began; with OverwriteEnv = true a successful load leaves every
\* exported name with the table's value.
C8_OverwritePolicy == C8_Preserves /\ C8_Replaces

\* C8 witness: application.conf was loaded with OverwriteEnv off; APP_NAME, set by
\* the caller, still holds "old" while the table holds app.name = MyApp
C8_Witness ==
    /\ ~opts.OverwriteEnv
    /\ result = "ok"
    /\ <<"application", CONF>> \in hist.done
    /\ prefix = <<>>
    /\ hist.env0[<<"APP", "_", "NAME">>] = <<"old">>
    /\ env[<<"APP", "_", "NAME">>] = <<"old">>
    /\ <<"app", ".", "name">> \in DOMAIN variables
    /\ variables[<<"app", ".", "name">>] = <<"MyApp">>

-----------------------------------------------------------------------------
(* C9 *)

\* C9: no file is opened twice in a session, so a file that includes itself and
\* two files that include each other are each read once, and every Load that was
\* called returns.
C9_Terminates ==
    /\ [](\A p \in DOMAIN FileText : TimesRead(hist, p) <= 1)
    /\ (Running ~> ~Running)

\* C9 witness: self.conf, which includes itself, and ping.conf and pong.conf, which
\* include each other, were loaded: each was read once and both Loads returned nil
C9_Witness ==
    /\ ~Running
    /\ result = "ok"
    /\ {<<"self", CONF>>, <<"ping", CONF>>, <<"pong", CONF>>} \subseteq hist.done
    /\ \A p \in {<<"self", CONF>>, <<"ping", CONF>>, <<"pong", CONF>>} : TimesRead(hist, p) = 1

-----------------------------------------------------------------------------
(* C10 *)

\* the regular files directly inside dir
DirectFiles(dir) == {p \in DOMAIN FileText : Dir(p) = dir}

\* those of them whose name ends in one of the include patterns
DirectConfFiles(dir) ==
    {p \in DirectFiles(dir) :
        \E i \in 1..Len(IncludePatterns) : HasSuffix(Base(p), IncludePatterns[i])}

\* the line is a directory include, read in the source cur, of a directory that exists
DirectoryIncluded(line, cur) ==
    /\ HasPrefix(line, <<"include", SP>>)
    /\ Contains(line, "directory")
    /\ Resolve(Quoted(line), cur) \in Dirs

C10_Lists ==
    ( /\ ScanInclude
      /\ DirectoryIncluded(TextLine(LinesOf(Top), Top.pos), Top.path) )
    => LET f == Head(stack')
       IN  /\ f.fn = "handleDirectoryInclude"
           /\ Len(f.pending) = Cardinality(DirectConfFiles(f.path))
           /\ {f.pending[i] : i \in 1..Len(f.pending)} = DirectConfFiles(f.path)

\* each of them goes through the ledger, and when the Load returns nil the keys of
\* each one of a required include are in the table
C10_Loads ==
    (LoadLoop /\ result' = "ok")
    => \A d \in hist.dirs : \A p \in DirectConfFiles(d) :
         /\ p \in loadedFiles
         /\ TimesRead(hist, p) <= 1
         /\ FileKeys[p] \subseteq DOMAIN variables'

-----------------------------------------------------------------------------
(* C11 *)

\* C11: when loadFile fails on a file of a listed directory, the directory
\* include ends there and returns the error, whether it is required or optional.
C11_PerFileAborts ==
    [][ ( /\ IncludeLoop
          /\ Top.fn = "handleDirectoryInclude"
          /\ ret = "err"
          /\ ~opts.IgnoreErrors )
        => (ret' = "err" /\ stack' = Tail(stack)) ]_vars

-----------------------------------------------------------------------------
(* C12 *)

\* the running loadFile is the one of a root source: LoadWithOptions called it
RootSource == Len(stack) = 2 /\ stack[1].fn = "loadFile" /\ stack[2].fn = "Load"

\* C12: the environment changes only when the lines of a root source are
\* exhausted; the end of a nested, included source publishes nothing.
C12_ExportAtRootEnd == [][ env' # env => (LoadFileEnd /\ RootSource) ]_vars

-----------------------------------------------------------------------------
(* C13 *)

\* the keys a source assigns, file or URL body
KeysOfSource(src) ==
    IF src \in DOMAIN FileText THEN FileKeys[src]
    ELSE {AssignedKey(HttpText[src].body, i)
            : i \in LinesOfKind(HttpText[src].body, {"assign"})}

\* the sources the running/last Load read
ReadByLoad == {hist.reads[i] : i \in (hist.reads0 + 1)..Len(hist.reads)}

\* C13: when a Load with a DefaultPrefix follows a Load that succeeded under
\* another DefaultPrefix, the names it exports are those of the keys of its own
\* files under its own prefix: the keys of the files of the earlier call are not
\* exported under the prefix of the later one.
C13_PrefixOfOwnCall ==
    (result = "ok" /\ hist.after)
    => \A n \in hist.published :
         \E src \in ReadByLoad : \E k \in KeysOfSource(src) :
            n = PrefixText(opts.DefaultPrefix) \o NameUnder(<<>>, k)

-----------------------------------------------------------------------------
(* C14 *)

\* the include line carries a modifier word followed by white space
ModifierWord(line) ==
    /\ Len(line) >= 4
    /\ HasPrefix(line, <<"include", SP>>)
    /\ line[3] \in {"optional", "required"}
    /\ line[4] = SP

\* the include line carries the modifier in the form optional(...)
ModifierParen(line) ==
    HasPrefix(line, <<"include", SP, "optional", "(">>) /\ HasSuffix(line, <<")">>)

\* the include line the scanner is at, and what handleInclude makes of it
IncludeLineAt == TextLine(LinesOf(Top), Top.pos)
DirectiveAt == Parsed[Top.path][Top.pos].directive

-----------------------------------------------------------------------------
(* C15: the shared fields are accessed under the lock *)

\* the places where a goroutine writes the table, the ledger or the prefix
WritesAt == {"loadFile.Mark", "parseLine.Store", "SetPrefix.Write", "ClearVariables.Clear"}

\* the places where a goroutine reads them
ReadsAt == {"loadFile.Check", "applyVariables.Sweep", "GetVariable.Read"}

HoldsLock(g) == mutex.writer = g
HoldsRLock(g) == g \in mutex.readers

\* C15: among concurrent Load, SetPrefix, GetVariable and ClearVariables calls,
\* every write of the table, the ledger and the prefix (and the ledger check)
\* is made by the goroutine that holds the write lock, the export sweep and
\* the lookup by a goroutine that holds the read lock; so no writer is at its
\* access together with another writer or a reader, and no goroutine calls
\* Lock or RLock while it holds the lock.
C15_Locked ==
    /\ \A g \in GoIds :
         /\ Go(g).pc \in WritesAt \cup {"loadFile.Check"} => HoldsLock(g)
         /\ Go(g).pc \in {"applyVariables.Sweep", "GetVariable.Read"} => HoldsRLock(g)
         /\ Go(g).pc \in LockAt \cup RLockAt => ~HoldsLock(g) /\ ~HoldsRLock(g)
    /\ \A g, h \in GoIds :
         (g # h /\ Go(g).pc \in WritesAt) => Go(h).pc \notin WritesAt \cup ReadsAt
    /\ mutex.writer # 0 => mutex.readers = {}

\* one goroutine stores a value of d/a.conf while the other, which loads the
\* same file, waits for the lock
C15_Witness ==
    /\ Go(1).pc = "parseLine.Store"
    /\ Go(2).pc \in LockAt
    /\ Go(1).op = "Load" /\ Go(2).op = "Load"
    /\ Go(1).arg = <<"d", SEP, "a", CONF>> /\ Go(2).arg = Go(1).arg
    /\ HoldsLock(1)

-----------------------------------------------------------------------------
(* C19: two concurrent Load calls of one path *)

\* every goroutine has called Load, all of them for the same path
SameLoad ==
    \A g \in GoIds : Go(g).op = "Load" /\ Go(g).arg = Go(1).arg

\* the goroutines that have opened file f
Openers(f) == {g \in GoIds : f \in Go(g).opened}

\* every assignment of file f is in the table and exported
Complete(f) ==
    \A k \in FileKeys[f] :
        /\ k \in DOMAIN variables
        /\ NameUnder(prefix, k) \in DOMAIN env
        /\ env[NameUnder(prefix, k)] = variables[k]

\* C19, first half: when all goroutines load the same path, no file is opened
\* by two of them.
C19_OneReader ==
    SameLoad => \A f \in DOMAIN FileText : Cardinality(Openers(f)) <= 1

\* C19: when two Load calls of the same path run concurrently, the file is
\* read by one of them only, and a call that has returned nil finds every
\* assignment of the file in the table and exported.
C19_SameLoad ==
    /\ C19_OneReader
    /\ SameLoad =>
         \A g \in GoIds :
             (Go(g).out = "ok" /\ IsFile(Go(g).arg)) => Complete(Go(g).arg)

-----------------------------------------------------------------------------
(* C16: last-write-wins in the environment *)

\* the first call on a new Config was a Load, with IgnoreErrors off, and it
\* has returned nil
FirstLoadDone == ops = 1 /\ ~Running /\ result = "ok" /\ ~opts.IgnoreErrors

\* C16: after a successful Load (IgnoreErrors off, either OverwriteEnv), every
\* key of the table whose environment name did not exist before the load, and
\* is the name of no other key, has the table's final value in the environment.
C16_LastWriteWins ==
    FirstLoadDone =>
        \A k \in DOMAIN variables :
            (EnvKey(k) \notin DOMAIN hist.env0 /\ KeysNamed(EnvKey(k)) = {k})
            => (EnvKey(k) \in DOMAIN env /\ env[EnvKey(k)] = variables[k])

-----------------------------------------------------------------------------
(* C17: the environment is a function of the inputs *)

\* loadFile has read the last line of its file and calls applyVariables
AtSweep ==
    /\ Running
    /\ Top.fn = "loadFile"
    /\ ret = "none"
    /\ Top.pos > Len(LinesOf(Top))

\* the environments the sweep can end with, from the state it starts in
SweepEnvs == {out.env : out \in applyVariables(opts)}

\* C17: from one state of the table, the prefix, the options and the
\* environment, the export sweep of a load ends with one environment, also
\* when two keys of the table have the same environment name.
C17_Deterministic == AtSweep => Cardinality(SweepEnvs) = 1

-----------------------------------------------------------------------------
(* C18: processValue is total *)

\* the scanner of a running load is at an assignment line
AtAssignment ==
    /\ Running
    /\ Top.fn \in Scanners
    /\ ret = "none"
    /\ Top.pos <= Len(LinesOf(Top))
    /\ Top.pos \in LinesOfKind(LinesOf(Top), {"assign"})

\* the raw value of that line
RawValue == TrimSpace(SplitN2(TextLine(LinesOf(Top), Top.pos), "=")[2])

\* C18: for every raw value of an assignment line, the empty value, a single
\* double quote and a pair of double quotes included, processValue returns a
\* string, and no load crashes because of a value.
C18_Total ==
    /\ AtAssignment => processValue(RawValue) # SliceOutOfRange
    /\ result # "panic"

====
